---------------------------- MODULE Spec2Model ----------------------------
(***************************************************************************)
(* CP/M disk image tool (cpm_disk.py): create_disk, find_free_blocks,      *)
(* find_free_dir_entry, add_file, extract_file, list_disk.                 *)
(*                                                                         *)
(* The image is modelled at the real geometry (262144 bytes, 64 directory  *)
(* slots of 32 bytes, 1024-byte blocks).  Byte buffers (file data, block   *)
(* contents, the reserved area) are kept run-length encoded: a buffer is a *)
(* sequence of runs <<byte, count>> with count > 0 and no two neighbouring *)
(* runs of the same byte, so two buffers are equal exactly when their      *)
(* bytes are equal.  Directory slots are kept byte by byte.  Loops over    *)
(* many elements are evaluated half by half, or as the function they       *)
(* compute, to keep the evaluation shallow; the order of their passes is   *)
(* kept.                                                                   *)
(***************************************************************************)
EXTENDS Integers, Sequences, FiniteSets, TLC

\* ------------------------------------------------------------------------
\* Disk geometry constants
\* ------------------------------------------------------------------------
DISK_SIZE == 256 * 1024
SECTOR_SIZE == 128
SECTORS_PER_TRACK == 26
RESERVED_TRACKS == 2
BLOCK_SIZE == 1024
DIR_ENTRIES == 64
ENTRY_SIZE == 32

DIR_OFFSET == RESERVED_TRACKS * SECTORS_PER_TRACK * SECTOR_SIZE
DATA_OFFSET == DIR_OFFSET + (DIR_ENTRIES * ENTRY_SIZE)
TOTAL_BLOCKS == (DISK_SIZE - DATA_OFFSET) \div BLOCK_SIZE

EMPTY_ENTRY == 229
\* 0x1A, the CP/M end-of-file pad byte
EOF_BYTE == 26
\* blocks listed by one directory entry (the literal 16 of add_file)
EXTENT_BLOCKS == 16
\* records covered by one directory entry (the literal 128 of add_file)
EXTENT_RECORDS == 128
\* highest valid user number (the literal 15)
MAX_USER == 15

Min(a, b) == IF a < b THEN a ELSE b

\* ------------------------------------------------------------------------
\* Byte buffers (Python bytes / bytearray), run-length encoded: a buffer is
\* a sequence of runs <<byte, end>>, the run holding `byte` at every index
\* from the previous run's end up to end - 1.  Ends increase strictly and
\* neighbouring runs hold different bytes, so equal bytes give equal buffers.
\* ------------------------------------------------------------------------
\* len(buf)
BLen(buf) == IF buf = <<>> THEN 0 ELSE buf[Len(buf)][2]

\* index of the first byte of run k
RunStart(buf, k) == IF k = 1 THEN 0 ELSE buf[k - 1][2]

\* bytes([b] * n)
Fill(b, n) == IF n <= 0 THEN <<>> ELSE << <<b, n>> >>

\* the runs of buf, found d bytes later
Shift(buf, d) == [k \in 1 .. Len(buf) |-> <<buf[k][1], buf[k][2] + d>>]

\* a + b
Cat(a, b) ==
    IF a = <<>> THEN b
    ELSE IF b = <<>> THEN a
    ELSE IF a[Len(a)][1] = b[1][1]
         THEN SubSeq(a, 1, Len(a) - 1) \o Shift(b, BLen(a))
         ELSE a \o Shift(b, BLen(a))

\* buf[start:end] for 0 <= start, 0 <= end (Python clamps both to len(buf))
Slice(buf, start, end) ==
    LET s  == Min(start, BLen(buf))
        e  == Min(end, BLen(buf))
        lo == 1 + Cardinality({k \in 1 .. Len(buf) : buf[k][2] <= s})
        hi == Cardinality({k \in 1 .. Len(buf) : RunStart(buf, k) < e})
    IN IF e <= s THEN <<>>
       ELSE [j \in 1 .. hi - lo + 1 |->
               <<buf[lo + j - 1][1], Min(buf[lo + j - 1][2], e) - s>>]

\* buf[i], 0 <= i < len(buf)
ByteAt(buf, i) == buf[1 + Cardinality({k \in 1 .. Len(buf) : buf[k][2] <= i})][1]

\* buf[-1]
LastByte(buf) == buf[Len(buf)][1]

\* ------------------------------------------------------------------------
\* The image: DISK_SIZE bytes, split at the offsets the code addresses
\*   sys  : bytes 0 .. DIR_OFFSET-1
\*   dir  : slot i holds bytes DIR_OFFSET + 32*i .. +31
\*   data : area a holds bytes DATA_OFFSET + 1024*a .. +1023
\*   rest : the bytes after the last whole 1024-byte area
\* ------------------------------------------------------------------------
Slots == 0 .. DIR_ENTRIES - 1
Areas == 0 .. TOTAL_BLOCKS - 1
REST_SIZE == DISK_SIZE - DATA_OFFSET - TOTAL_BLOCKS * BLOCK_SIZE

RECURSIVE DataLen(_, _, _)
\* the bytes held by the areas lo .. hi - 1
DataLen(disk, lo, hi) ==
    IF hi - lo <= 0 THEN 0
    ELSE IF hi - lo = 1 THEN BLen(disk.data[lo])
    ELSE DataLen(disk, lo, (lo + hi) \div 2) + DataLen(disk, (lo + hi) \div 2, hi)

\* len(disk)
ImageLen(disk) ==
    BLen(disk.sys) + DIR_ENTRIES * ENTRY_SIZE + DataLen(disk, 0, TOTAL_BLOCKS)
      + BLen(disk.rest)

\* disk[off] for any offset of the image
ImageByte(disk, off) ==
    IF off < DIR_OFFSET THEN ByteAt(disk.sys, off)
    ELSE IF off < DATA_OFFSET
         THEN disk.dir[(off - DIR_OFFSET) \div ENTRY_SIZE][(off - DIR_OFFSET) % ENTRY_SIZE]
    ELSE IF off < DATA_OFFSET + TOTAL_BLOCKS * BLOCK_SIZE
         THEN ByteAt(disk.data[(off - DATA_OFFSET) \div BLOCK_SIZE],
                     (off - DATA_OFFSET) % BLOCK_SIZE)
    ELSE ByteAt(disk.rest, off - DATA_OFFSET - TOTAL_BLOCKS * BLOCK_SIZE)

\* disk[offset:offset + ENTRY_SIZE] for a slot offset
GetEntry(disk, offset) == disk.dir[(offset - DIR_OFFSET) \div ENTRY_SIZE]

\* faulty variant: the entry always lands in the first slot of the directory
SetEntry_FirstSlot(disk, offset, entry) == [disk EXCEPT !.dir[0] = entry]

\* disk[offset:offset + ENTRY_SIZE] = entry
SetEntry(disk, offset, entry) ==
    [disk EXCEPT !.dir[(offset - DIR_OFFSET) \div ENTRY_SIZE] = entry]

\* the area of the image that starts at a block offset
AreaAt(block_offset) == (block_offset - DATA_OFFSET) \div BLOCK_SIZE

\* disk[block_offset:block_offset + BLOCK_SIZE] for a block offset
GetBlock(disk, block_offset) == disk.data[AreaAt(block_offset)]

\* ------------------------------------------------------------------------
\* create_disk
\* ------------------------------------------------------------------------
\* one directory slot of bytearray(DISK_SIZE) after disk[offset] = EMPTY_ENTRY
BlankEntry == [k \in 0 .. ENTRY_SIZE - 1 |-> IF k = 0 THEN EMPTY_ENTRY ELSE 0]

\* faulty variant: the loop over the slots starts at 1
create_disk_SkipsSlot0 ==
    [sys  |-> Fill(0, DIR_OFFSET),
     dir  |-> [i \in Slots |-> IF i = 0 THEN [k \in 0 .. ENTRY_SIZE - 1 |-> 0] ELSE BlankEntry],
     data |-> [a \in Areas |-> Fill(0, BLOCK_SIZE)],
     rest |-> Fill(0, REST_SIZE)]

create_disk ==
    [sys  |-> Fill(0, DIR_OFFSET),
     dir  |-> [i \in Slots |-> BlankEntry],
     data |-> [a \in Areas |-> Fill(0, BLOCK_SIZE)],
     rest |-> Fill(0, REST_SIZE)]

\* the capacity create_disk reports: print(f"  Usable blocks: {TOTAL_BLOCKS}")
UsableBlocks == TOTAL_BLOCKS

\* ------------------------------------------------------------------------
\* Directory scanning
\* ------------------------------------------------------------------------
\* entry[0] != EMPTY_ENTRY and entry[0] <= 15
Occupied(entry) == entry[0] # EMPTY_ENTRY /\ entry[0] <= MAX_USER

\* [entry[16 + b] for b in range(16) if entry[16 + b] > 0], as a set
EntryBlockSet(entry) ==
    {entry[16 + b] : b \in {c \in 0 .. EXTENT_BLOCKS - 1 : entry[16 + c] > 0}}

\* faulty variant: the scan reads only the first 8 block bytes of an entry
used_blocks_Short(disk) ==
    UNION {{disk.dir[i][16 + b] : b \in 0 .. 7} \ {0} :
             i \in {j \in Slots : Occupied(disk.dir[j])}}

\* the set `used` built by the directory scan of find_free_blocks
used_blocks(disk) ==
    UNION {EntryBlockSet(GetEntry(disk, DIR_OFFSET + (i * ENTRY_SIZE))) :
             i \in {j \in Slots : Occupied(GetEntry(disk, DIR_OFFSET + (j * ENTRY_SIZE)))}}

\* one pass of the loop body of find_free_blocks for candidate b; acc.done
\* is set by its `break`
FreeStep(used, count, acc, b) ==
    IF acc.done \/ b \in used THEN acc
    ELSE [free |-> Append(acc.free, b), done |-> Len(acc.free) + 1 >= count]

RECURSIVE FreeScan(_, _, _, _, _)
\* the loop `for b in range(lo, hi)` of find_free_blocks, run half by half
FreeScan(used, count, acc, lo, hi) ==
    IF acc.done \/ hi - lo <= 0 THEN acc
    ELSE IF hi - lo = 1 THEN FreeStep(used, count, acc, lo)
    ELSE FreeScan(used, count, FreeScan(used, count, acc, lo, (lo + hi) \div 2),
                  (lo + hi) \div 2, hi)

find_free_blocks(disk, count) ==
    FreeScan(used_blocks(disk), count, [free |-> <<>>, done |-> FALSE], 2, TOTAL_BLOCKS).free

\* faulty variant: the scan runs from the last slot down
find_free_dir_entry_FromEnd(disk) ==
    LET free == {i \in Slots : ImageByte(disk, DIR_OFFSET + (i * ENTRY_SIZE)) = EMPTY_ENTRY}
    IN IF free = {} THEN -1
       ELSE CHOOSE i \in free : \A j \in free : i >= j

\* index of the first slot whose status byte is EMPTY_ENTRY, or -1 for None
find_free_dir_entry(disk) ==
    LET free == {i \in Slots : ImageByte(disk, DIR_OFFSET + (i * ENTRY_SIZE)) = EMPTY_ENTRY}
    IN IF free = {} THEN -1
       ELSE CHOOSE i \in free : \A j \in free : i <= j

\* ------------------------------------------------------------------------
\* File names: sequences of ASCII codes
\* ------------------------------------------------------------------------
\* one character of str.upper()
UpperChar(c) == IF c >= 97 /\ c <= 122 THEN c - 32 ELSE c

\* s.upper()
Upper(s) == [k \in 1 .. Len(s) |-> UpperChar(s[k])]

\* position of the last occurrence of ch in s, 0 when there is none
LastIndex(s, ch) ==
    LET at == {k \in 1 .. Len(s) : s[k] = ch}
    IN IF at = {} THEN 0 ELSE CHOOSE k \in at : \A j \in at : j <= k

\* os.path.basename(s)
Basename(s) == SubSeq(s, LastIndex(s, 47) + 1, Len(s))

\* s[:n].ljust(n)
PadField(s, n) == [k \in 1 .. n |-> IF k <= Len(s) THEN s[k] ELSE 32]

\* basename.rsplit('.', 1), or (basename, '') when it holds no '.'
SplitName(s) ==
    LET k == LastIndex(s, 46)
    IN IF k > 0
       THEN [name |-> SubSeq(s, 1, k - 1), ext |-> SubSeq(s, k + 1, Len(s))]
       ELSE [name |-> s, ext |-> <<>>]

\* name[:8].ljust(8), ext[:3].ljust(3)
Cpm83(s) ==
    LET p == SplitName(s)
    IN [name |-> PadField(p.name, 8), ext |-> PadField(p.ext, 3)]

\* ------------------------------------------------------------------------
\* add_file
\* ------------------------------------------------------------------------
\* records = (len(data) + SECTOR_SIZE - 1) // SECTOR_SIZE
Records(n) == (n + SECTOR_SIZE - 1) \div SECTOR_SIZE

\* blocks_needed = (len(data) + BLOCK_SIZE - 1) // BLOCK_SIZE
BlocksNeeded(n) == (n + BLOCK_SIZE - 1) \div BLOCK_SIZE

\* faulty variant: the block number taken as the area number, without the
\* offset of 2
BlockOffset_NoBias(block) == DATA_OFFSET + block * BLOCK_SIZE

\* block_offset = DATA_OFFSET + (block - 2) * BLOCK_SIZE
BlockOffset(block) == DATA_OFFSET + (block - 2) * BLOCK_SIZE

\* faulty variant: the space test off by one
NotEnoughSpace_OffByOne(free_blocks, blocks_needed) == Len(free_blocks) + 1 < blocks_needed

\* the test `len(free_blocks) < blocks_needed` that ends add_file early
NotEnoughSpace(free_blocks, blocks_needed) == Len(free_blocks) < blocks_needed

\* chunk padded with 0x1A up to BLOCK_SIZE
PadChunk(chunk) ==
    IF BLen(chunk) < BLOCK_SIZE
    THEN Cat(chunk, Fill(EOF_BYTE, BLOCK_SIZE - BLen(chunk)))
    ELSE chunk

\* chunk = data[start:end] of the i-th block
Chunk(data, i) ==
    LET start == i * BLOCK_SIZE
        end   == Min(start + BLOCK_SIZE, BLen(data))
    IN Slice(data, start, end)

\* the image after the loop `for i, block in enumerate(free_blocks)`: every
\* pass i assigns disk[block_offset:block_offset + BLOCK_SIZE] = chunk, so an
\* area ends up holding the chunk of the last pass that wrote it
WriteData(disk, data, free_blocks) ==
    [disk EXCEPT !.data =
        [a \in Areas |->
            LET passes == {i \in 0 .. Len(free_blocks) - 1 :
                             AreaAt(BlockOffset(free_blocks[i + 1])) = a}
            IN IF passes = {} THEN disk.data[a]
               ELSE PadChunk(Chunk(data, CHOOSE i \in passes : \A j \in passes : j <= i))]]

\* faulty variant: the record count taken modulo 128, so a full extent gets 0
RecordsInExtent_Mod(records, extent) ==
    (records - (extent * EXTENT_RECORDS)) % EXTENT_RECORDS

\* records_in_extent = min(records - (extent * 128), 128)
RecordsInExtent(records, extent) ==
    Min(records - (extent * EXTENT_RECORDS), EXTENT_RECORDS)

\* extent & 0x1F
ExtentLow(extent) == extent % 32

\* faulty variant: the high byte masked with 0x1F
ExtentHigh_Mask1F(extent) == (extent \div 32) % 32

\* (extent >> 5) & 0x3F
ExtentHigh(extent) == (extent \div 32) % 64

\* faulty variant: the slice one block short
ExtentBlocks_Short(free_blocks, block_idx) ==
    SubSeq(free_blocks, block_idx + 1, Min(block_idx + EXTENT_BLOCKS - 1, Len(free_blocks)))

\* extent_blocks = free_blocks[block_idx:block_idx + 16]
ExtentBlocks(free_blocks, block_idx) ==
    SubSeq(free_blocks, block_idx + 1, Min(block_idx + EXTENT_BLOCKS, Len(free_blocks)))

\* faulty variant: the status byte takes the record count
BuildEntry_StatusIsCount(name, ext, extent, records, extent_blocks) ==
    [k \in 0 .. ENTRY_SIZE - 1 |->
        IF k = 0 THEN Min(records - (extent * EXTENT_RECORDS), EXTENT_RECORDS)
        ELSE IF k <= 8 THEN name[k]
        ELSE IF k <= 11 THEN ext[k - 8]
        ELSE IF k = 12 THEN extent % 32
        ELSE IF k = 13 THEN 0
        ELSE IF k = 14 THEN (extent \div 32) % 64
        ELSE IF k = 15 THEN Min(records - (extent * EXTENT_RECORDS), EXTENT_RECORDS)
        ELSE IF k - 15 <= Len(extent_blocks) THEN extent_blocks[k - 15]
        ELSE 0]

\* the 32 bytes of one directory entry
BuildEntry(name, ext, extent, records, extent_blocks) ==
    [k \in 0 .. ENTRY_SIZE - 1 |->
        IF k = 0 THEN 0
        ELSE IF k <= 8 THEN name[k]
        ELSE IF k <= 11 THEN ext[k - 8]
        ELSE IF k = 12 THEN ExtentLow(extent)
        ELSE IF k = 13 THEN 0
        ELSE IF k = 14 THEN ExtentHigh(extent)
        ELSE IF k = 15 THEN RecordsInExtent(records, extent)
        ELSE IF k - 15 <= Len(extent_blocks) THEN extent_blocks[k - 15]
        ELSE 0]

\* a bytearray element must be in range(256), else ValueError
IsByte(v) == v >= 0 /\ v <= 255

RECURSIVE WriteEntries(_, _, _, _, _, _, _)
\* the loop `while block_idx < len(free_blocks)`
WriteEntries(disk, free_blocks, block_idx, extent, name, ext, records) ==
    IF block_idx >= Len(free_blocks) THEN [ok |-> TRUE, err |-> "", disk |-> disk]
    ELSE LET dir_idx == find_free_dir_entry(disk)
         IN IF dir_idx = -1
            THEN [ok |-> FALSE, err |-> "DirectoryFull", disk |-> disk]
            ELSE IF ~IsByte(RecordsInExtent(records, extent))
            THEN [ok |-> FALSE, err |-> "ValueError", disk |-> disk]
            ELSE WriteEntries(
                   SetEntry(disk, DIR_OFFSET + (dir_idx * ENTRY_SIZE),
                            BuildEntry(name, ext, extent, records,
                                       ExtentBlocks(free_blocks, block_idx))),
                   free_blocks, block_idx + EXTENT_BLOCKS, extent + 1, name, ext, records)

\* add_file on the image read from the disk file: the result, the in-memory
\* buffer at the return, and the blocks handed out by find_free_blocks
add_file(disk, filename, data) ==
    LET nm            == Cpm83(Upper(Basename(filename)))
        records       == Records(BLen(data))
        blocks_needed == BlocksNeeded(BLen(data))
        free_blocks   == find_free_blocks(disk, blocks_needed)
    IN IF NotEnoughSpace(free_blocks, blocks_needed)
       THEN [ok |-> FALSE, err |-> "InsufficientSpace", disk |-> disk,
             free_blocks |-> free_blocks]
       ELSE LET r == WriteEntries(WriteData(disk, data, free_blocks),
                                  free_blocks, 0, 0, nm.name, nm.ext, records)
            IN [ok |-> r.ok, err |-> r.err, disk |-> r.disk,
                free_blocks |-> free_blocks]

\* faulty variant: the disk file written on every path
Persist_Always(old, r) == r.disk

\* the disk file after add_file: written only on the path that reaches
\* `with open(diskname, 'wb')`
Persist(old, r) == IF r.ok THEN r.disk ELSE old

\* ------------------------------------------------------------------------
\* extract_file
\* ------------------------------------------------------------------------
\* name == tname and ext == text
NameMatches(entry, nm) ==
    /\ \A k \in 1 .. 8 : entry[k] = nm.name[k]
    /\ \A k \in 1 .. 3 : entry[8 + k] = nm.ext[k]

\* extent_num = entry[12] + (entry[14] << 5)
ExtentNum(entry) == entry[12] + (entry[14] * 32)

RECURSIVE EntryBlocks(_, _, _)
\* [entry[16 + b] for b in range(lo, hi) if entry[16 + b] > 0]
EntryBlocks(entry, lo, hi) ==
    IF hi - lo <= 0 THEN <<>>
    ELSE IF hi - lo = 1 THEN (IF entry[16 + lo] > 0 THEN <<entry[16 + lo]>> ELSE <<>>)
    ELSE EntryBlocks(entry, lo, (lo + hi) \div 2) \o EntryBlocks(entry, (lo + hi) \div 2, hi)

RECURSIVE FindExtents(_, _, _, _)
\* the list `extents` of (extent_num, records, blocks) built from slots lo .. hi - 1
FindExtents(disk, nm, lo, hi) ==
    IF hi - lo <= 0 THEN <<>>
    ELSE IF hi - lo = 1
         THEN LET entry == GetEntry(disk, DIR_OFFSET + (lo * ENTRY_SIZE))
              IN IF Occupied(entry) /\ NameMatches(entry, nm)
                 THEN << <<ExtentNum(entry), entry[15], EntryBlocks(entry, 0, EXTENT_BLOCKS)>> >>
                 ELSE <<>>
    ELSE FindExtents(disk, nm, lo, (lo + hi) \div 2)
           \o FindExtents(disk, nm, (lo + hi) \div 2, hi)

\* extents.sort(key=lambda x: x[0]): a stable sort, so element k lands after
\* every element with a smaller key and every earlier element with an equal key
SortExtents(extents) ==
    LET n   == Len(extents)
        pos == [k \in 1 .. n |->
                  1 + Cardinality({j \in 1 .. n : extents[j][1] < extents[k][1]})
                    + Cardinality({j \in 1 .. k - 1 : extents[j][1] = extents[k][1]})]
    IN [p \in 1 .. n |-> extents[CHOOSE k \in 1 .. n : pos[k] = p]]

\* every block number of the sorted extents, in the order the two nested
\* loops of extract_file visit them
RECURSIVE BlockList(_, _, _)
BlockList(extents, lo, hi) ==
    IF hi - lo <= 0 THEN <<>>
    ELSE IF hi - lo = 1 THEN extents[lo + 1][3]
    ELSE BlockList(extents, lo, (lo + hi) \div 2) \o BlockList(extents, (lo + hi) \div 2, hi)

RECURSIVE ReadBlocks(_, _, _, _)
\* data.extend(disk[block_offset:block_offset + BLOCK_SIZE]) for blocks[lo .. hi - 1]
ReadBlocks(disk, blocks, lo, hi) ==
    IF hi - lo <= 0 THEN <<>>
    ELSE IF hi - lo = 1 THEN GetBlock(disk, BlockOffset(blocks[lo + 1]))
    ELSE Cat(ReadBlocks(disk, blocks, lo, (lo + hi) \div 2),
             ReadBlocks(disk, blocks, (lo + hi) \div 2, hi))

\* the buffer `data` after the loop `for extent_num, records, blocks in extents`
ReadExtents(disk, extents) ==
    LET blocks == BlockList(extents, 0, Len(extents))
    IN ReadBlocks(disk, blocks, 0, Len(blocks))

\* total_records = (len(extents) - 1) * 128 + last_extent[1]
TotalRecords(extents) ==
    (Len(extents) - 1) * EXTENT_RECORDS + extents[Len(extents)][2]

RECURSIVE StripEOF(_)
\* while data and data[-1] == 0x1A: data = data[:-1]
StripEOF(data) ==
    IF data # <<>> /\ LastByte(data) = EOF_BYTE
    THEN StripEOF(SubSeq(data, 1, Len(data) - 1))
    ELSE data

extract_file(disk, filename) ==
    LET nm      == Cpm83(Upper(filename))
        extents == SortExtents(FindExtents(disk, nm, 0, DIR_ENTRIES))
    IN IF extents = <<>>
       THEN [ok |-> FALSE, err |-> "NotFound", out |-> <<>>]
       ELSE [ok |-> TRUE, err |-> "",
             out |-> StripEOF(Slice(ReadExtents(disk, extents), 0,
                                    TotalRecords(extents) * SECTOR_SIZE))]

\* ------------------------------------------------------------------------
\* list_disk
\* ------------------------------------------------------------------------
RECURSIVE ListedBlocks(_, _, _)
\* sum(len(f['blocks']) for f in files.values()): every nonzero block byte of
\* every entry the listing does not skip, for the slots lo .. hi - 1
ListedBlocks(disk, lo, hi) ==
    IF hi - lo <= 0 THEN 0
    ELSE IF hi - lo = 1
         THEN LET entry == GetEntry(disk, DIR_OFFSET + (lo * ENTRY_SIZE))
              IN IF entry[0] = EMPTY_ENTRY \/ entry[0] > MAX_USER THEN 0
                 ELSE Len(EntryBlocks(entry, 0, EXTENT_BLOCKS))
    ELSE ListedBlocks(disk, lo, (lo + hi) \div 2) + ListedBlocks(disk, (lo + hi) \div 2, hi)

\* what list_disk prints about free space: nothing when `files` is empty
\* (the early return), else free_blocks = TOTAL_BLOCKS - the blocks listed
list_disk(disk) ==
    IF \A i \in Slots :
          LET entry == GetEntry(disk, DIR_OFFSET + (i * ENTRY_SIZE))
          IN entry[0] = EMPTY_ENTRY \/ entry[0] > MAX_USER
    THEN [shown |-> FALSE, free_blocks |-> 0]
    ELSE [shown |-> TRUE, free_blocks |-> TOTAL_BLOCKS - ListedBlocks(disk, 0, DIR_ENTRIES)]

\* ------------------------------------------------------------------------
\* Inputs
\* ------------------------------------------------------------------------
\* n bytes none of which is 0x1A: byte i is 65 + ((i div 1000) mod 20)
Pattern(n) ==
    [k \in 1 .. (n + 999) \div 1000 |-> <<65 + ((k - 1) % 20), Min(k * 1000, n)>>]

\* the content of a host file: d.len bytes, the last d.eof of them 0x1A
MkData(d) == Cat(Pattern(d.len - d.eof), Fill(EOF_BYTE, d.eof))

\* host files: [len, eof]
DataSet ==
    { [len |-> 0, eof |-> 0],
      [len |-> 1, eof |-> 1],
      [len |-> 2000, eof |-> 0],
      [len |-> 2000, eof |-> 130],
      [len |-> 16384, eof |-> 0],
      [len |-> 17000, eof |-> 0],
      [len |-> 33000, eof |-> 3],
      [len |-> (TOTAL_BLOCKS - 2) * BLOCK_SIZE, eof |-> 0],
      [len |-> (TOTAL_BLOCKS - 2) * BLOCK_SIZE + 1, eof |-> 0] }

\* "a.txt"
NameA == <<97, 46, 116, 120, 116>>
\* "B.COM"
NameB == <<66, 46, 67, 79, 77>>

\* the add commands tried: "a.txt" with every host file, "B.COM" with three
AddInputs ==
    {<<NameA, d>> : d \in DataSet}
      \cup {<<NameB, d>> : d \in {[len |-> 0, eof |-> 0], [len |-> 2000, eof |-> 0],
                                  [len |-> 17000, eof |-> 0]}}

\* "A.TXT", "b.com", "NONE"
ExtractNames == { <<65, 46, 84, 88, 84>>, <<98, 46, 99, 111, 109>>, <<78, 79, 78, 69>> }

\* "Fnn.D", the name of the n-th file of an image filled beforehand
FillName(n) == <<70, 48 + (n \div 10), 48 + (n % 10), 46, 68>>

RECURSIVE FillFrom(_, _, _)
\* add the files lo .. hi - 1, one byte each, to the image, as long as a
\* directory slot is left
FillFrom(disk, lo, hi) ==
    IF find_free_dir_entry(disk) = -1 \/ hi - lo <= 0 THEN disk
    ELSE IF hi - lo = 1
         THEN Persist(disk, add_file(disk, FillName(lo), MkData([len |-> 1, eof |-> 0])))
    ELSE FillFrom(FillFrom(disk, lo, (lo + hi) \div 2), (lo + hi) \div 2, hi)

\* the image after create and n one-byte files added under distinct names
Prefilled(n) == FillFrom(create_disk, 1, n + 1)

\* numbers of files already on the image when the run starts
StartFiles == {0, DIR_ENTRIES - 2}

\* successful adds per run
MaxAdds == 2

\* ------------------------------------------------------------------------
\* State
\* ------------------------------------------------------------------------
VARIABLES
    file,   \* the image in the disk file
    pre,    \* the disk file before the last operation
    buf,    \* the in-memory image `disk` when the last operation returned
    res,    \* the last operation: its arguments and what it returned
    hist,   \* the successful adds since the start: <<filename, data>>
    start   \* the number of files on the image at the start

vars == <<file, pre, buf, res, hist, start>>

NoData == [len |-> 0, eof |-> 0]

\* the image just created, or one that earlier add commands have filled
Init ==
    /\ start \in StartFiles
    /\ file = Prefilled(start)
    /\ pre = IF start = 0 THEN file ELSE Prefilled(start - 1)
    /\ buf = file
    /\ res = IF start = 0
             THEN [op |-> "create", fn |-> <<>>, d |-> NoData,
                   ok |-> TRUE, err |-> "", out |-> <<>>, free_blocks |-> <<>>]
             ELSE [op |-> "add", fn |-> FillName(start), d |-> [len |-> 1, eof |-> 0],
                   ok |-> TRUE, err |-> "", out |-> <<>>,
                   free_blocks |-> find_free_blocks(pre, 1)]
    /\ hist = <<>>

\* python3 cpm_disk.py add <disk> <fn>, the host file holding MkData(d)
Add(fn, d) ==
    /\ Len(hist) < MaxAdds
    /\ \E r \in {add_file(file, fn, MkData(d))} :
          /\ file' = Persist(file, r)
          /\ buf' = r.disk
          /\ res' = [op |-> "add", fn |-> fn, d |-> d, ok |-> r.ok, err |-> r.err,
                     out |-> <<>>, free_blocks |-> r.free_blocks]
          /\ hist' = IF r.ok THEN Append(hist, <<fn, d>>) ELSE hist
    /\ pre' = file
    /\ UNCHANGED start

\* python3 cpm_disk.py extract <disk> <fn>
Extract(fn) ==
    /\ \E r \in {extract_file(file, fn)} :
          res' = [op |-> "extract", fn |-> fn, d |-> NoData,
                  ok |-> r.ok, err |-> r.err, out |-> r.out, free_blocks |-> <<>>]
    /\ pre' = file
    /\ buf' = file
    /\ UNCHANGED <<file, hist, start>>

\* python3 cpm_disk.py list <disk>
List ==
    /\ res' = [op |-> "list", fn |-> <<>>, d |-> NoData, ok |-> TRUE, err |-> "",
               out |-> <<>>, free_blocks |-> <<>>, listed |-> list_disk(file)]
    /\ pre' = file
    /\ buf' = file
    /\ UNCHANGED <<file, hist, start>>

Next ==
    \/ \E inp \in AddInputs : Add(inp[1], inp[2])
    \/ \E fn \in ExtractNames : Extract(fn)
    \/ List

Spec == Init /\ [][Next]_vars

\* ------------------------------------------------------------------------
\* The extent-number fields on their own: every number the two fields can
\* hold is written as add_file writes it and read as extract_file reads it
\* ------------------------------------------------------------------------
\* the extent numbers that fit the masks 0x1F and 0x3F: 5 + 6 bits
EXTENT_NUMBERS == 32 * 64

\* a blank image and an extent number still to be written
InitExtent ==
    /\ start = 0
    /\ file = create_disk
    /\ pre = file
    /\ buf = file
    /\ \E extent \in 0 .. EXTENT_NUMBERS - 1 :
          res = [op |-> "extent", extent |-> extent]
    /\ hist = <<>>

\* the entry add_file builds for group res.extent of a file of full extents,
\* and the extent number extract_file reads from it
EncodeExtent ==
    /\ res.op = "extent"
    /\ \E entry \in {BuildEntry(Cpm83(Upper(NameA)).name, Cpm83(Upper(NameA)).ext,
                                 res.extent, (res.extent + 1) * EXTENT_RECORDS, <<2>>)} :
          res' = [op |-> "entry", extent |-> res.extent, entry |-> entry,
                  extent_num |-> ExtentNum(entry)]
    /\ UNCHANGED <<file, pre, buf, hist, start>>

NextExtent == EncodeExtent

SpecExtent == InitExtent /\ [][NextExtent]_vars

\* ------------------------------------------------------------------------
\* Properties
\* ------------------------------------------------------------------------
\* ceil(a / b)
CeilDiv(a, b) == (a + b - 1) \div b

\* the slots a directory scan sees as occupied
OccupiedSlots(disk) == {i \in Slots : Occupied(disk.dir[i])}

\* the slots occupied after the last operation and not before it
NewSlots == OccupiedSlots(file) \ OccupiedSlots(pre)

\* the block numbers the allocator may hand out
BlockRange == 2 .. TOTAL_BLOCKS - 1

\* the blocks of BlockRange that no occupied entry of the image references
FreeBlockSet(disk) == BlockRange \ used_blocks(disk)

\* the 8 + 3 name bytes under which add stores, and extract looks up, a file name
AddedAs(fn) == Cpm83(Upper(Basename(fn)))
LookedUpAs(fn) == Cpm83(Upper(fn))

\* the last operation was an add, successful or failed
LastAdd == res.op = "add"
AddOk == LastAdd /\ res.ok
AddFailed == LastAdd /\ ~res.ok

\* C1: a buffer of 0 .. (TOTAL_BLOCKS-2)*BLOCK_SIZE bytes stored on a blank
\* image is stored successfully, and retrieving its name from the image that
\* holds just this file returns the buffer without its trailing 0x1A bytes.
C1_RoundTrip ==
    /\ (LastAdd /\ pre = create_disk /\ res.d.len <= (TOTAL_BLOCKS - 2) * BLOCK_SIZE)
          => res.ok
    /\ (/\ res.op = "extract"
        /\ start = 0
        /\ Len(hist) = 1
        /\ LookedUpAs(res.fn) = AddedAs(hist[1][1]))
          => /\ res.ok
             /\ res.out = Pattern(hist[1][2].len - hist[1][2].eof)

\* a file of three extents that ends in 0x1A bytes was stored alone and read back
C1_Witness ==
    /\ res.op = "extract"
    /\ start = 0
    /\ Len(hist) = 1
    /\ LookedUpAs(res.fn) = AddedAs(hist[1][1])
    /\ hist[1][2] = [len |-> 33000, eof |-> 3]
    /\ BLen(res.out) = 32997

\* C2: no block number is listed by two occupied entries or twice by one
\* entry, and every listed block number lies in 2 .. TOTAL_BLOCKS-1.
C2_AllocationDisjoint ==
    /\ \A i \in OccupiedSlots(file) :
          /\ \A b \in 0 .. EXTENT_BLOCKS - 1 : file.dir[i][16 + b] > 0 =>
                /\ file.dir[i][16 + b] \in BlockRange
                /\ \A c \in 0 .. EXTENT_BLOCKS - 1 :
                      c # b => file.dir[i][16 + c] # file.dir[i][16 + b]
    /\ \A i, j \in OccupiedSlots(file) :
          i # j => EntryBlockSet(file.dir[i]) \cap EntryBlockSet(file.dir[j]) = {}

\* a file of two extents was added to an image that already held 62 files
C2_Witness ==
    /\ start = DIR_ENTRIES - 2
    /\ Len(hist) = 1
    /\ AddOk
    /\ Cardinality(NewSlots) = 2
    /\ Cardinality(used_blocks(file)) = start + 17

\* C3: an add that needs more blocks than are free fails with
\* InsufficientSpace and changes neither the disk file nor the image in memory.
C3_CapacityExhaustion ==
    (LastAdd /\ CeilDiv(res.d.len, BLOCK_SIZE) > Cardinality(FreeBlockSet(pre)))
       => /\ ~res.ok
          /\ res.err = "InsufficientSpace"
          /\ file = pre
          /\ buf = pre

\* an add failed for lack of blocks on an image that holds a file already
C3_Witness ==
    /\ AddFailed
    /\ res.err = "InsufficientSpace"
    /\ Len(hist) >= 1
    /\ CeilDiv(res.d.len, BLOCK_SIZE) = Cardinality(FreeBlockSet(pre)) + 1

\* C4: a successful add of a file of k >= 1 blocks and r records occupies
\* exactly n = ceil(k/16) new slots, numbered 0 .. n-1 as extents; every
\* extent but the last lists 16 blocks and 128 records, the last one lists
\* the k - 16*(n-1) blocks and r - 128*(n-1) records left, 1 .. 128 of them;
\* no other slot changes.
C4_ExtentSplitting ==
    (AddOk /\ res.d.len >= 1) =>
       LET k == CeilDiv(res.d.len, BLOCK_SIZE)
           r == CeilDiv(res.d.len, SECTOR_SIZE)
           n == CeilDiv(k, 16)
       IN /\ Cardinality(NewSlots) = n
          /\ {ExtentNum(file.dir[i]) : i \in NewSlots} = 0 .. n - 1
          /\ \A i \in Slots \ NewSlots : file.dir[i] = pre.dir[i]
          /\ \A i \in NewSlots :
                IF ExtentNum(file.dir[i]) < n - 1
                THEN /\ Cardinality(EntryBlockSet(file.dir[i])) = 16
                     /\ file.dir[i][15] = 128
                ELSE /\ Cardinality(EntryBlockSet(file.dir[i])) = k - 16 * (n - 1)
                     /\ file.dir[i][15] = r - 128 * (n - 1)
                     /\ file.dir[i][15] >= 1
                     /\ file.dir[i][15] <= 128

\* a file of exactly 17 blocks was added
C4_Witness ==
    /\ AddOk
    /\ CeilDiv(res.d.len, BLOCK_SIZE) = 17
    /\ Cardinality(NewSlots) = 2

\* C5: the disk file changes only at the end of an add whose block request
\* and slot requests all succeeded; an add that fails with InsufficientSpace
\* or DirectoryFull, also after it wrote earlier extents in memory, leaves
\* the disk file as it was.
C5_FailedAddKeepsFile ==
    LastAdd =>
       IF res.ok
       THEN file = buf
       ELSE /\ file = pre
            /\ res.err \in {"InsufficientSpace", "DirectoryFull"}

\* an add ran out of directory slots after it had written an extent in memory
C5_Witness ==
    /\ AddFailed
    /\ res.err = "DirectoryFull"
    /\ OccupiedSlots(buf) # OccupiedSlots(pre)
    /\ file = pre

\* C6 (as claimed): an add that fails with DirectoryFull has written nothing:
\* the image in memory equals the image it read.
C6_NoHalfWrittenFile ==
    (AddFailed /\ res.err = "DirectoryFull") => buf = pre

RECURSIVE RecordSum(_, _, _, _)
\* the sum of the record counts of the slots of S among lo .. hi - 1
RecordSum(disk, S, lo, hi) ==
    IF hi - lo <= 0 THEN 0
    ELSE IF hi - lo = 1 THEN (IF lo \in S THEN disk.dir[lo][15] ELSE 0)
    ELSE RecordSum(disk, S, lo, (lo + hi) \div 2) + RecordSum(disk, S, (lo + hi) \div 2, hi)

\* C7 (as claimed): a successful add of L bytes makes exactly ceil(L/1024)
\* more blocks used, and the record counts of the entries it writes sum to
\* ceil(L/128).
C7_BlockRecordAccounting ==
    AddOk =>
       /\ used_blocks(pre) \subseteq used_blocks(file)
       /\ Cardinality(used_blocks(file) \ used_blocks(pre)) = CeilDiv(res.d.len, BLOCK_SIZE)
       /\ RecordSum(file, NewSlots, 0, DIR_ENTRIES) = CeilDiv(res.d.len, SECTOR_SIZE)

\* every byte of the buffer is 0
AllZero(b) == \A k \in 1 .. Len(b) : b[k][1] = 0

\* C8: the image create writes has DISK_SIZE bytes, 0xE5 in the status byte
\* of each of the 64 slots and 0 everywhere else; no slot is occupied, no
\* block is used and retrieving any name reports NotFound.
C8_CreateBlank ==
    /\ res.op = "create" =>
          /\ ImageLen(file) = DISK_SIZE
          /\ BLen(file.sys) = DIR_OFFSET /\ AllZero(file.sys)
          /\ \A k \in Slots :
                /\ ImageByte(file, DIR_OFFSET + 32 * k) = 229
                /\ \A o \in 1 .. 31 : ImageByte(file, DIR_OFFSET + 32 * k + o) = 0
          /\ \A a \in Areas : BLen(file.data[a]) = BLOCK_SIZE /\ AllZero(file.data[a])
          /\ AllZero(file.rest)
          /\ OccupiedSlots(file) = {}
          /\ used_blocks(file) = {}
          /\ find_free_dir_entry(file) = 0
    /\ (res.op = "extract" /\ start = 0 /\ hist = <<>>)
          => ~res.ok /\ res.err = "NotFound"

\* a name was looked up on the image as created
C8_Witness ==
    /\ res.op = "extract"
    /\ start = 0
    /\ hist = <<>>
    /\ file = create_disk
    /\ res.err = "NotFound"

\* user number, name and extension of an entry
FileId(entry) == [k \in 0 .. 11 |-> entry[k]]

\* C9 (as claimed): no two occupied entries of one file have the same extent
\* number, and the extent numbers of a file are exactly 0 .. n-1.
C9_ExtentNumbersUnique ==
    \A i \in OccupiedSlots(file) :
       LET same == {j \in OccupiedSlots(file) : FileId(file.dir[j]) = FileId(file.dir[i])}
       IN /\ \A j \in same : j # i => ExtentNum(file.dir[j]) # ExtentNum(file.dir[i])
          /\ {ExtentNum(file.dir[j]) : j \in same} = 0 .. Cardinality(same) - 1

\* C10: the status byte of every slot is 0xE5 or a user number 0 .. 15, on
\* the disk file and in memory after any add, so the slots the slot finder
\* takes for free are exactly those the block scan does not take for occupied.
C10_StatusByte ==
    \A disk \in {file, buf} :
       /\ \A i \in Slots : disk.dir[i][0] = 229 \/ disk.dir[i][0] \in 0 .. 15
       /\ {i \in Slots : ImageByte(disk, DIR_OFFSET + (i * ENTRY_SIZE)) = EMPTY_ENTRY}
             = Slots \ OccupiedSlots(disk)
       /\ (find_free_dir_entry(disk) = -1) = (OccupiedSlots(disk) = Slots)

\* an add failed half way on an image whose directory an earlier add had touched
C10_Witness ==
    /\ AddFailed
    /\ res.err = "DirectoryFull"
    /\ Len(hist) >= 1
    /\ OccupiedSlots(buf) = Slots
    /\ buf # file

\* the n lowest numbers of S, in ascending order
LowestOf(S, n) ==
    LET T == {b \in S : Cardinality({c \in S : c < b}) < n}
    IN [k \in 1 .. Cardinality(T) |-> CHOOSE b \in T : Cardinality({c \in T : c < b}) = k - 1]

\* the count add_file passes to find_free_blocks
RequestedBlocks == BlocksNeeded(res.d.len)

\* C11 (as claimed): for every count >= 0, find_free_blocks returns the
\* min(count, number of free blocks) lowest free block numbers of
\* 2 .. TOTAL_BLOCKS-1 in ascending order: never more than count blocks,
\* never a used block, fewer than count only when no free block is left.
C11_FreeBlocksExact ==
    LastAdd =>
       /\ Len(res.free_blocks) <= RequestedBlocks
       /\ res.free_blocks =
             LowestOf(FreeBlockSet(pre), Min(RequestedBlocks, Cardinality(FreeBlockSet(pre))))

\* the slots whose status byte is the empty sentinel
EmptySlots(disk) == {i \in Slots : disk.dir[i][0] = EMPTY_ENTRY}

\* C12 (as claimed): with k = ceil(len/BLOCK_SIZE) and g = ceil(k/16), an add
\* fails with InsufficientSpace exactly when fewer than k blocks are free,
\* otherwise with DirectoryFull exactly when fewer than g slots are empty,
\* and otherwise succeeds.
C12_OutcomeByResources ==
    LastAdd =>
       LET k == CeilDiv(res.d.len, BLOCK_SIZE)
           g == CeilDiv(k, 16)
       IN IF Cardinality(FreeBlockSet(pre)) < k
          THEN ~res.ok /\ res.err = "InsufficientSpace"
          ELSE IF Cardinality(EmptySlots(pre)) < g
          THEN ~res.ok /\ res.err = "DirectoryFull"
          ELSE res.ok

\* C13: along every run, retrieve and list leave the disk file as it is, and
\* an add leaves every occupied slot occupied with its 32 bytes unchanged, so
\* the set of occupied slots and the set of used blocks only grow.
C13_EntriesStayOccupied ==
    [][/\ res'.op \in {"extract", "list"} => file' = file
       /\ \A i \in OccupiedSlots(file) :
             /\ i \in OccupiedSlots(file')
             /\ file'.dir[i] = file.dir[i]
       /\ OccupiedSlots(file) \subseteq OccupiedSlots(file')
       /\ used_blocks(file) \subseteq used_blocks(file')]_vars

\* a second file of two extents was added after a first file, whose entry
\* is still there
C13_Witness ==
    /\ AddOk
    /\ Len(hist) = 2
    /\ Cardinality(NewSlots) = 2
    /\ OccupiedSlots(pre) # {}
    /\ \A i \in OccupiedSlots(pre) : file.dir[i] = pre.dir[i]

\* the slots the last add wrote in memory
WrittenSlots == {i \in Slots : buf.dir[i] # pre.dir[i]}

\* C14: the entries an add writes, also one that fails later, lie in the
\* lowest-index slots that were empty, one group after the other in
\* increasing slot order; and the slot finder returns none exactly when no
\* slot holds the empty sentinel, else the lowest such slot.
C14_SlotsFirstFit ==
    /\ LastAdd =>
          /\ WrittenSlots \subseteq EmptySlots(pre)
          /\ \A i \in WrittenSlots : \A e \in EmptySlots(pre) : e < i => e \in WrittenSlots
          /\ \A i, j \in WrittenSlots :
                i < j => ExtentNum(buf.dir[i]) < ExtentNum(buf.dir[j])
    /\ \A disk \in {pre, buf, file} :
          /\ (find_free_dir_entry(disk) = -1) = (EmptySlots(disk) = {})
          /\ EmptySlots(disk) # {} =>
                /\ find_free_dir_entry(disk) \in EmptySlots(disk)
                /\ \A e \in EmptySlots(disk) : find_free_dir_entry(disk) <= e

\* a file of three extents was added to an image that held a file already
C14_Witness ==
    /\ AddOk
    /\ OccupiedSlots(pre) # {}
    /\ Cardinality(WrittenSlots) = 3
    /\ Cardinality(EmptySlots(file)) > 0

\* C15 (as claimed): after an add that reports success, also of an empty
\* file and also when no block was free, an occupied entry with the file's
\* name and extension exists, so retrieving that name does not report
\* NotFound.
C15_StoredFileFound ==
    AddOk =>
       /\ \E i \in OccupiedSlots(file) : NameMatches(file.dir[i], AddedAs(res.fn))
       /\ extract_file(file, Basename(res.fn)).ok

\* the names whose retrieval is compared before and after an add
WatchedNames == ExtractNames \cup {FillName(1), FillName(DIR_ENTRIES - 2)}

\* the successful adds of the run were made under pairwise distinct names
DistinctNames ==
    \A i, j \in 1 .. Len(hist) : i # j => AddedAs(hist[i][1]) # AddedAs(hist[j][1])

\* an add, successful or failed, leaves the result of retrieving every file
\* stored under another name as it was
C16_OthersUndisturbed ==
    LastAdd =>
       \A n \in WatchedNames :
          LookedUpAs(n) # AddedAs(res.fn) => extract_file(file, n) = extract_file(pre, n)

\* C16 (as claimed): an add of a file B leaves the result of retrieving a
\* file A of another name unchanged; so after successful adds under pairwise
\* distinct names, retrieving each name returns that file's own data without
\* its trailing 0x1A bytes.
C16_FilesIndependent ==
    /\ C16_OthersUndisturbed
    /\ (res.op = "extract" /\ DistinctNames) =>
          \A i \in 1 .. Len(hist) :
             LookedUpAs(res.fn) = AddedAs(hist[i][1]) =>
                /\ res.ok
                /\ res.out = Pattern(hist[i][2].len - hist[i][2].eof)

\* the data areas, slots and other parts of the image the last add changed in
\* memory
WrittenAreas == {a \in Areas : buf.data[a] # pre.data[a]}

\* the block numbers of a block list
BlocksOf(free_blocks) == {free_blocks[k] : k \in 1 .. Len(free_blocks)}

\* C17: an add changes bytes only inside the 1024-byte areas of the blocks
\* find_free_blocks handed it in that call and inside the slots it claims in
\* that call; every such area lies wholly in the data region and below
\* DISK_SIZE, clear of the reserved area and the directory; the image keeps
\* its length DISK_SIZE.
C17_WritesOnlyAllocated ==
    LastAdd =>
       /\ \A a \in WrittenAreas : a + 2 \in BlocksOf(res.free_blocks)
       /\ WrittenSlots \subseteq EmptySlots(pre)
       /\ Cardinality(WrittenSlots) <= CeilDiv(Len(res.free_blocks), EXTENT_BLOCKS)
       /\ buf.sys = pre.sys
       /\ buf.rest = pre.rest
       /\ \A b \in BlocksOf(res.free_blocks) :
             /\ BlockOffset(b) >= DATA_OFFSET
             /\ BlockOffset(b) >= DIR_OFFSET + DIR_ENTRIES * ENTRY_SIZE
             /\ BlockOffset(b) + BLOCK_SIZE <= DISK_SIZE
             /\ BlockOffset(b) + BLOCK_SIZE <= DATA_OFFSET + TOTAL_BLOCKS * BLOCK_SIZE
       /\ \A a \in Areas : BLen(buf.data[a]) = BLOCK_SIZE
       /\ ImageLen(buf) = DISK_SIZE
       /\ ImageLen(file) = DISK_SIZE

\* the largest file that fits was added to the blank image: the last block,
\* 246, was written
C17_Witness ==
    /\ AddOk
    /\ res.d.len = (TOTAL_BLOCKS - 2) * BLOCK_SIZE
    /\ TOTAL_BLOCKS - 1 \in BlocksOf(res.free_blocks)
    /\ Cardinality(WrittenAreas) = TOTAL_BLOCKS - 2
    /\ Cardinality(WrittenSlots) = 16

\* an add that needs n blocks of the image does not fail for lack of space
Allocatable(disk, n) == ~NotEnoughSpace(find_free_blocks(disk, n), n)

\* C18 (as claimed): the free-block count list reports, TOTAL_BLOCKS minus
\* the blocks occupied entries reference, is the number of blocks the
\* allocator can still hand out, so an add needing exactly that many blocks
\* does not fail with InsufficientSpace; on the blank image this is the
\* whole capacity create reports.
C18_ReportedFreeAllocatable ==
    /\ (res.op = "list" /\ res.listed.shown) =>
          /\ res.listed.free_blocks = TOTAL_BLOCKS - Cardinality(used_blocks(file))
          /\ res.listed.free_blocks = Cardinality(FreeBlockSet(file))
          /\ Allocatable(file, res.listed.free_blocks)
    /\ res.op = "create" => Allocatable(file, UsableBlocks)

\* position of slot i among the slots the last add wrote, from 0
GroupIndex(i) == Cardinality({j \in WrittenSlots : j < i})

\* C19: for every extent number e of 0 .. 2047, and for every group index an
\* add writes, the low byte e & 0x1F lies in 0 .. 31, the high byte
\* (e >> 5) & 0x3F lies in 0 .. 63, and low + (high << 5) gives e back.
C19_ExtentRoundTrip ==
    /\ res.op = "entry" =>
          /\ res.entry[12] \in 0 .. 31
          /\ res.entry[14] \in 0 .. 63
          /\ res.entry[12] + 32 * res.entry[14] = res.extent
          /\ res.extent_num = res.extent
    /\ LastAdd =>
          \A i \in WrittenSlots :
             /\ buf.dir[i][12] \in 0 .. 31
             /\ buf.dir[i][14] \in 0 .. 63
             /\ ExtentNum(buf.dir[i]) = GroupIndex(i)

\* the highest extent number was written and read back
C19_Witness ==
    /\ res.op = "entry"
    /\ res.extent = 2047
    /\ res.entry[12] = 31
    /\ res.entry[14] = 63
    /\ res.extent_num = 2047

=============================================================================
